---- MODULE Spec2Model ----
(***************************************************************************)
(* Model of the file-store bot of src/main.py: an administrator uploads    *)
(* media, the bot copies it into a private archive channel, registers a    *)
(* token for it, persists the registry to storage.json and schedules a     *)
(* one-shot job that deletes the archived copies and the token.            *)
(*                                                                         *)
(* Scheduling.  Application.builder().build() leaves concurrent_updates    *)
(* off, so the dispatcher awaits one handler to completion before it takes *)
(* the next update: there is one handler slot, h.  Jobs of the job queue   *)
(* run as tasks of their own on the same event loop, so a job step may run *)
(* whenever the handler is suspended in an await.  Every action below is   *)
(* the code that runs between two awaits, atomically.                      *)
(*                                                                         *)
(* Platform calls (copy_message, delete_message, reply_text) may raise;    *)
(* the outcome is chosen when the await resumes.  Writes of storage.json   *)
(* are taken to succeed, the job queue to be installed, and a restart to   *)
(* fall between two atomic steps.  uuid4 never returns a value twice.      *)
(***************************************************************************)
EXTENDS Integers, Sequences, FiniteSets, TLC

\* ------------------------------------------------------------ configuration
ADMIN_ID == 0
\* int(os.getenv("DELETE_TIMER", 600)) of a deployment that sets DELETE_TIMER=1
DEFAULT_DELETE_SECONDS == 1

\* ------------------------------------------------------------------- bounds
\* number of media messages the administrator sends (each token takes at
\* least one, so it bounds the tokens uuid4 is asked for as well)
MaxUploads == 2
\* number of process restarts
MaxRestarts == 1

Users == {ADMIN_ID, ADMIN_ID + 1}

VARIABLES
    video_storage,   \* token -> list of archived message ids     (line 27)
    delete_timer,    \* delete_timer["timer"]                      (line 28)
    batch_sessions,  \* user id -> list of pending messages        (line 29)
    file,            \* content of storage.json, or NoFile
    job_queue,       \* jobs of context.job_queue, in arming order
    h,               \* the handler in execution and its locals
    archive,         \* archive channel: message id -> source message
    deleted,         \* archive message ids deleted from the channel
    attempts,        \* archive message id -> number of delete_message calls
    next_token,      \* number of the next uuid4 draw
    next_msg,        \* message id of the administrator's next media message
    issued,          \* tokens registered since the process started
    linked,          \* tokens whose link reply was delivered
    expired,         \* tokens whose deletion job ran its removal step
    latest,          \* seconds of the last accepted /settimer, or the default
    restarts,        \* process restarts so far
    orphans          \* archive ids copied by a run that registered no token

vars == <<video_storage, delete_timer, batch_sessions, file, job_queue, h,
          archive, deleted, attempts, next_token, next_msg, issued, linked,
          expired, latest, restarts, orphans>>

\* everything but the handler slot
state == <<video_storage, delete_timer, batch_sessions, file, job_queue,
           archive, deleted, attempts, next_token, next_msg, issued, linked,
           expired, latest, restarts, orphans>>

\* ------------------------------------------------------------------ helpers
\* storage.json before its first write: os.path.exists is false
NoFile == [exists |-> FALSE, storage |-> <<>>, timer |-> 0]

\* None and [] are both falsy where the code tests a lookup: both are <<>>
None == <<>>

\* dict.get(key): the value, or None
dict_get(d, key) == IF key \in DOMAIN d THEN d[key] ELSE None

\* d[key] = value
dict_set(d, key, value) ==
    [k \in DOMAIN d \cup {key} |-> IF k = key THEN value ELSE d[k]]

\* del d[key]
dict_del(d, key) == [k \in DOMAIN d \ {key} |-> d[k]]

\* str.isdigit() on a string given as its characters
Digits == <<"0", "1", "2", "3", "4", "5", "6", "7", "8", "9">>

isdigit(s) ==
    /\ Len(s) > 0
    /\ \A i \in 1..Len(s) : \E d \in 1..10 : Digits[d] = s[i]

DigitValue(c) == (CHOOSE d \in 1..10 : Digits[d] = c) - 1

\* int() of a string of digits
RECURSIVE int(_)
int(s) ==
    IF s = <<>> THEN 0
    ELSE 10 * int(SubSeq(s, 1, Len(s) - 1)) + DigitValue(s[Len(s)])

\* what json.dump writes: {"storage": video_storage, "timer": delete_timer}
FileContent(storage, timer) ==
    [exists |-> TRUE, storage |-> storage, timer |-> timer]

\* save_storage() for the given globals
save_storage(storage, timer) == FileContent(storage, timer)

\* the admin test left out
not_admin_skipped(user) == FALSE

\* the test every admin-only handler starts with: user.id != ADMIN_ID
not_admin(user) == user # ADMIN_ID

\* a counter kept per key: 0 for a key never counted
dict_count(d, key) == IF key \in DOMAIN d THEN d[key] ELSE 0

\* the sequence q without its k-th element
RemoveAt(q, k) == SubSeq(q, 1, k - 1) \o SubSeq(q, k + 1, Len(q))

\* the handler slot when no update is being handled
Idle == [op |-> "idle", pc |-> "idle", user |-> ADMIN_ID, token |-> 0,
         messages |-> <<>>, message_ids |-> <<>>, sent |-> <<>>,
         text |-> "", onfail |-> ""]

\* a handler suspended in reply_text(text); onfail is the reply its except
\* clause sends when this one raises ("" when no except clause covers it)
Replying(op, user, text, onfail) ==
    [Idle EXCEPT !.op = op, !.pc = "reply", !.user = user, !.text = text,
                 !.onfail = onfail]

\* ---------------------------------------------------------------- the state
Init ==
    /\ video_storage = <<>>
    /\ delete_timer = DEFAULT_DELETE_SECONDS
    /\ batch_sessions = <<>>
    /\ file = NoFile
    /\ job_queue = <<>>
    /\ h = Idle
    /\ archive = <<>>
    /\ deleted = {}
    /\ attempts = <<>>
    /\ next_token = 1
    /\ next_msg = 1
    /\ issued = {}
    /\ linked = {}
    /\ expired = {}
    /\ latest = DEFAULT_DELETE_SECONDS
    /\ restarts = 0
    /\ orphans = {}

\* ------------------------------------------------------------------- /start
\* tokens a requester can present: issued ones and one that never is
StartArgs == {<<>>} \cup {<<t>> : t \in 1..(MaxUploads + 1)}

\* outcomes of copy_message from the archive: a deleted message cannot be copied
RetrieveOutcomes(msg_id) ==
    IF msg_id \in deleted THEN {FALSE} ELSE BOOLEAN

\* lines 44-51, 64-71: up to the first await
start(user, args) ==
    /\ h.pc = "idle"
    /\ IF args # <<>>
       THEN LET token == args[1]
                message_ids == dict_get(video_storage, token)
            IN  IF message_ids # None
                THEN h' = [Idle EXCEPT !.op = "start", !.pc = "copy",
                                       !.user = user, !.token = token,
                                       !.message_ids = message_ids]
                ELSE h' = [Replying("start", user, "invalid", "")
                               EXCEPT !.token = token]
       ELSE h' = Replying("start", user, "welcome", "")
    /\ UNCHANGED state

\* start_copy that skips an id whose copy raised and goes on with the next
start_copy_goes_on ==
    /\ h.op = "start" /\ h.pc = "copy"
    /\ LET msg_id == h.message_ids[Len(h.sent) + 1] IN
       \E ok \in RetrieveOutcomes(msg_id) :
          LET sent == IF ok THEN Append(h.sent, msg_id)
                      ELSE Append(h.sent, 0)
          IN IF Len(sent) = Len(h.message_ids)
             THEN h' = [h EXCEPT !.sent = sent,
                                 !.pc = "reply", !.text = "delivered",
                                 !.onfail = "deliver_error"]
             ELSE h' = [h EXCEPT !.sent = sent]
    /\ UNCHANGED state

\* lines 53-63: copy_message for the next id returns or raises
start_copy ==
    /\ h.op = "start" /\ h.pc = "copy"
    /\ LET msg_id == h.message_ids[Len(h.sent) + 1] IN
       \E ok \in RetrieveOutcomes(msg_id) :
          IF ok
          THEN IF Len(h.sent) + 1 = Len(h.message_ids)
               THEN h' = [h EXCEPT !.sent = Append(h.sent, msg_id),
                                   !.pc = "reply", !.text = "delivered",
                                   !.onfail = "deliver_error"]
               ELSE h' = [h EXCEPT !.sent = Append(h.sent, msg_id)]
          ELSE h' = [h EXCEPT !.pc = "reply", !.text = "deliver_error",
                              !.onfail = ""]
    /\ UNCHANGED state

\* a reply_text that ends its handler returns or raises; when it raises
\* inside a try block the except clause sends the error reply
reply ==
    /\ h.pc = "reply"
    /\ \E ok \in BOOLEAN :
          IF ok \/ h.onfail = ""
          THEN h' = Idle
          ELSE h' = [h EXCEPT !.text = h.onfail, !.onfail = ""]
    /\ UNCHANGED state

\* -------------------------------------------------------------------- /help
\* lines 73-87
help_command(user) ==
    /\ h.pc = "idle"
    /\ h' = Replying("help", user,
                     IF not_admin(user) THEN "denied" ELSE "help", "")
    /\ UNCHANGED state

\* ---------------------------------------------------------------- /settimer
\* context.args of /settimer: none, "x", "-1", "0", "1", "01"
SettimerArgs ==
    {<<>>, << <<"x">> >>, << <<"-", "1">> >>,
     << <<"0">> >>, << <<"1">> >>, << <<"0", "1">> >>}

\* settimer that also re-arms the pending timers with the new delay
settimer_rearms(user, args) ==
    /\ h.pc = "idle"
    /\ IF not_admin(user)
       THEN /\ h' = Replying("settimer", user, "denied", "")
            /\ UNCHANGED <<delete_timer, file, latest, job_queue>>
       ELSE IF args = <<>> \/ ~isdigit(args[1])
            THEN /\ h' = Replying("settimer", user, "usage", "")
                 /\ UNCHANGED <<delete_timer, file, latest, job_queue>>
            ELSE LET seconds == int(args[1]) IN
                 /\ delete_timer' = seconds
                 /\ file' = save_storage(video_storage, seconds)
                 /\ latest' = seconds
                 /\ job_queue' = [k \in 1..Len(job_queue) |->
                        IF job_queue[k].pc = "armed"
                        THEN [job_queue[k] EXCEPT !.when = seconds,
                                                  !.rem = seconds]
                        ELSE job_queue[k]]
                 /\ h' = Replying("settimer", user, "timer_updated", "")
    /\ UNCHANGED <<video_storage, batch_sessions, archive, deleted,
                   attempts, next_token, next_msg, issued, linked, expired,
                   restarts, orphans>>

\* lines 89-102: up to the reply
settimer(user, args) ==
    /\ h.pc = "idle"
    /\ IF not_admin(user)
       THEN /\ h' = Replying("settimer", user, "denied", "")
            /\ UNCHANGED <<delete_timer, file, latest>>
       ELSE IF args = <<>> \/ ~isdigit(args[1])
            THEN /\ h' = Replying("settimer", user, "usage", "")
                 /\ UNCHANGED <<delete_timer, file, latest>>
            ELSE LET seconds == int(args[1]) IN
                 /\ delete_timer' = seconds
                 /\ file' = save_storage(video_storage, seconds)
                 /\ latest' = seconds
                 /\ h' = Replying("settimer", user, "timer_updated", "")
    /\ UNCHANGED <<video_storage, batch_sessions, job_queue, archive, deleted,
                   attempts, next_token, next_msg, issued, linked, expired,
                   restarts, orphans>>

\* ------------------------------------------------------------ media uploads
\* a media message as the handlers use it: msg.chat_id and msg.message_id
\* (a private chat's id is the user's id)
Message(user, message_id) == [chat_id |-> user, message_id |-> message_id]

\* the archive message id copy_message returns: the channel counts upwards
forwarded_id == Len(archive) + 1

\* the archive channel after a copy of msg into it
Archived(msg) == Append(archive, msg)

\* Register that saves before it registers the ids
Register_save_first(message_ids) ==
    LET token == next_token IN
    /\ file' = save_storage(video_storage, delete_timer)
    /\ video_storage' = dict_set(video_storage, token, message_ids)
    /\ next_token' = next_token + 1
    /\ issued' = issued \cup {token}

\* lines 181-183 and 127-129: draw a token, register the ids, save
Register(message_ids) ==
    LET token == next_token IN
    /\ video_storage' = dict_set(video_storage, token, message_ids)
    /\ file' = save_storage(video_storage', delete_timer)
    /\ next_token' = next_token + 1
    /\ issued' = issued \cup {token}

\* run_once that schedules nothing
run_once_dropped(when, name, message_ids) == job_queue

\* lines 135-140 and 188-193: job_queue.run_once(delete_from_channel, ...)
run_once(when, name, message_ids) ==
    Append(job_queue, [name |-> name, message_ids |-> message_ids,
                       when |-> when, rem |-> when, pc |-> "armed", i |-> 0])

\* the archive ids the handler in execution has collected and not registered
\* (lines 169-179: message_ids before line 182 is reached)
Unregistered ==
    IF h.op = "done" /\ h.pc = "copy"
    THEN {h.message_ids[i] : i \in 1..Len(h.message_ids)}
    ELSE {}

\* handle_media that stores the item on its own although a batch is open
handle_media_ignores_batch(user) ==
    /\ h.pc = "idle"
    /\ IF not_admin(user)
       THEN /\ h' = Replying("media", user, "denied", "")
            /\ UNCHANGED <<batch_sessions, next_msg>>
       ELSE /\ next_msg <= MaxUploads
            /\ next_msg' = next_msg + 1
            /\ UNCHANGED batch_sessions
            /\ h' = [Idle EXCEPT !.op = "media", !.pc = "copy",
                                 !.user = user,
                                 !.messages = <<Message(user, next_msg)>>]
    /\ UNCHANGED <<video_storage, delete_timer, file, job_queue, archive,
                   deleted, attempts, next_token, issued, linked, expired,
                   latest, restarts, orphans>>

\* lines 105-125: up to the first await
handle_media(user) ==
    /\ h.pc = "idle"
    /\ IF not_admin(user)
       THEN /\ h' = Replying("media", user, "denied", "")
            /\ UNCHANGED <<batch_sessions, next_msg>>
       ELSE /\ next_msg <= MaxUploads
            /\ next_msg' = next_msg + 1
            /\ LET message == Message(user, next_msg) IN
               IF user \in DOMAIN batch_sessions
               THEN /\ batch_sessions' =
                          [batch_sessions EXCEPT
                              ![user] = Append(batch_sessions[user], message)]
                    /\ h' = [Replying("media", user, "added", "")
                                EXCEPT !.messages = <<message>>]
               ELSE /\ UNCHANGED batch_sessions
                    /\ h' = [Idle EXCEPT !.op = "media", !.pc = "copy",
                                         !.user = user,
                                         !.messages = <<message>>]
    /\ UNCHANGED <<video_storage, delete_timer, file, job_queue, archive,
                   deleted, attempts, next_token, issued, linked, expired,
                   latest, restarts, orphans>>

\* lines 120-132, 141-143: copy_message returns or raises
handle_media_copy ==
    /\ h.op = "media" /\ h.pc = "copy"
    /\ \E ok \in BOOLEAN :
          IF ok
          THEN /\ archive' = Archived(h.messages[1])
               /\ Register(<<forwarded_id>>)
               /\ h' = [h EXCEPT !.pc = "reply_link", !.token = next_token,
                                 !.message_ids = <<forwarded_id>>,
                                 !.text = "link", !.onfail = "store_error"]
          ELSE /\ h' = [h EXCEPT !.pc = "reply", !.text = "store_error",
                                 !.onfail = ""]
               /\ UNCHANGED <<video_storage, file, archive, next_token, issued>>
    /\ UNCHANGED <<delete_timer, batch_sessions, job_queue, deleted, attempts,
                   next_msg, linked, expired, latest, restarts, orphans>>

\* lines 132-143: the link reply returns, and the job is scheduled, or raises
handle_media_reply ==
    /\ h.op = "media" /\ h.pc = "reply_link"
    /\ \E ok \in BOOLEAN :
          IF ok
          THEN /\ job_queue' = run_once(delete_timer, h.token, h.message_ids)
               /\ linked' = linked \cup {h.token}
               /\ h' = Idle
          ELSE /\ h' = [h EXCEPT !.pc = "reply", !.text = h.onfail,
                                 !.onfail = ""]
               /\ UNCHANGED <<job_queue, linked>>
    /\ UNCHANGED <<video_storage, delete_timer, batch_sessions, file, archive,
                   deleted, attempts, next_token, next_msg, issued, expired,
                   latest, restarts, orphans>>

\* ------------------------------------------------------------------- /batch
\* batch_command that starts over when a batch is already open
batch_command_reset(user) ==
    /\ h.pc = "idle"
    /\ IF not_admin(user)
       THEN /\ h' = Replying("batch", user, "denied", "")
            /\ UNCHANGED batch_sessions
       ELSE /\ batch_sessions' = dict_set(batch_sessions, user, <<>>)
            /\ h' = Replying("batch", user,
                             IF user \in DOMAIN batch_sessions
                             THEN "already_started" ELSE "batch_started", "")
    /\ UNCHANGED <<video_storage, delete_timer, file, job_queue, archive,
                   deleted, attempts, next_token, next_msg, issued, linked,
                   expired, latest, restarts, orphans>>

\* lines 145-156
batch_command(user) ==
    /\ h.pc = "idle"
    /\ IF not_admin(user)
       THEN /\ h' = Replying("batch", user, "denied", "")
            /\ UNCHANGED batch_sessions
       ELSE IF user \in DOMAIN batch_sessions
            THEN /\ h' = Replying("batch", user, "already_started", "")
                 /\ UNCHANGED batch_sessions
            ELSE /\ batch_sessions' = dict_set(batch_sessions, user, <<>>)
                 /\ h' = Replying("batch", user, "batch_started", "")
    /\ UNCHANGED <<video_storage, delete_timer, file, job_queue, archive,
                   deleted, attempts, next_token, next_msg, issued, linked,
                   expired, latest, restarts, orphans>>

\* -------------------------------------------------------------------- /done
\* done_command that pops the session before it tests for an empty batch
done_command_pop_first(user) ==
    /\ h.pc = "idle"
    /\ IF not_admin(user)
       THEN /\ h' = Replying("done", user, "denied", "")
            /\ UNCHANGED batch_sessions
       ELSE IF user \notin DOMAIN batch_sessions
            THEN /\ h' = Replying("done", user, "no_batch", "")
                 /\ UNCHANGED batch_sessions
            ELSE /\ batch_sessions' = dict_del(batch_sessions, user)
                 /\ IF batch_sessions[user] = <<>>
                    THEN h' = Replying("done", user, "no_batch", "")
                    ELSE h' = [Idle EXCEPT !.op = "done", !.pc = "copy",
                                           !.user = user,
                                           !.messages = batch_sessions[user]]
    /\ UNCHANGED <<video_storage, delete_timer, file, job_queue, archive,
                   deleted, attempts, next_token, next_msg, issued, linked,
                   expired, latest, restarts, orphans>>

\* done_command that reads the batch and leaves the session open
done_command_keeps_session(user) ==
    /\ h.pc = "idle"
    /\ IF not_admin(user)
       THEN h' = Replying("done", user, "denied", "")
       ELSE IF user \notin DOMAIN batch_sessions \/ batch_sessions[user] = <<>>
            THEN h' = Replying("done", user, "no_batch", "")
            ELSE h' = [Idle EXCEPT !.op = "done", !.pc = "copy",
                                   !.user = user,
                                   !.messages = batch_sessions[user]]
    /\ UNCHANGED <<video_storage, delete_timer, batch_sessions, file,
                   job_queue, archive, deleted, attempts, next_token,
                   next_msg, issued, linked, expired, latest, restarts,
                   orphans>>

\* lines 158-173: up to the first await
done_command(user) ==
    /\ h.pc = "idle"
    /\ IF not_admin(user)
       THEN /\ h' = Replying("done", user, "denied", "")
            /\ UNCHANGED batch_sessions
       ELSE IF user \notin DOMAIN batch_sessions \/ batch_sessions[user] = <<>>
            THEN /\ h' = Replying("done", user, "no_batch", "")
                 /\ UNCHANGED batch_sessions
            ELSE /\ batch_sessions' = dict_del(batch_sessions, user)
                 /\ h' = [Idle EXCEPT !.op = "done", !.pc = "copy",
                                      !.user = user,
                                      !.messages = batch_sessions[user]]
    /\ UNCHANGED <<video_storage, delete_timer, file, job_queue, archive,
                   deleted, attempts, next_token, next_msg, issued, linked,
                   expired, latest, restarts, orphans>>

\* done_copy with the new id put in front of the collected ids
done_copy_reversed ==
    /\ h.op = "done" /\ h.pc = "copy"
    /\ LET msg == h.messages[Len(h.message_ids) + 1]
           message_ids == <<forwarded_id>> \o h.message_ids
       IN \E ok \in BOOLEAN :
          IF ok
          THEN /\ archive' = Archived(msg)
               /\ IF Len(message_ids) = Len(h.messages)
                  THEN /\ Register(message_ids)
                       /\ h' = [h EXCEPT !.pc = "reply_link",
                                         !.token = next_token,
                                         !.message_ids = message_ids,
                                         !.text = "link",
                                         !.onfail = "batch_error"]
                       /\ UNCHANGED orphans
                  ELSE /\ h' = [h EXCEPT !.message_ids = message_ids]
                       /\ UNCHANGED <<video_storage, file, next_token, issued,
                                      orphans>>
          ELSE /\ h' = [h EXCEPT !.pc = "reply", !.text = "batch_error",
                                 !.onfail = ""]
               /\ orphans' = orphans \cup Unregistered
               /\ UNCHANGED <<video_storage, file, archive, next_token, issued>>
    /\ UNCHANGED <<delete_timer, batch_sessions, job_queue, deleted, attempts,
                   next_msg, linked, expired, latest, restarts>>

\* done_copy that registers the ids it has collected when a copy raises
done_copy_keeps_partial ==
    /\ h.op = "done" /\ h.pc = "copy"
    /\ LET msg == h.messages[Len(h.message_ids) + 1]
           message_ids == Append(h.message_ids, forwarded_id)
       IN \E ok \in BOOLEAN :
          IF ok
          THEN /\ archive' = Archived(msg)
               /\ IF Len(message_ids) = Len(h.messages)
                  THEN /\ Register(message_ids)
                       /\ h' = [h EXCEPT !.pc = "reply_link",
                                         !.token = next_token,
                                         !.message_ids = message_ids,
                                         !.text = "link",
                                         !.onfail = "batch_error"]
                       /\ UNCHANGED orphans
                  ELSE /\ h' = [h EXCEPT !.message_ids = message_ids]
                       /\ UNCHANGED <<video_storage, file, next_token, issued,
                                      orphans>>
          ELSE /\ h' = [h EXCEPT !.pc = "reply", !.text = "batch_error",
                                 !.onfail = ""]
               /\ orphans' = orphans \cup Unregistered
               /\ IF h.message_ids # <<>>
                  THEN Register(h.message_ids)
                  ELSE UNCHANGED <<video_storage, file, next_token, issued>>
               /\ UNCHANGED archive
    /\ UNCHANGED <<delete_timer, batch_sessions, job_queue, deleted, attempts,
                   next_msg, linked, expired, latest, restarts>>

\* lines 172-186, 194-196: one copy_message of the loop returns or raises
done_copy ==
    /\ h.op = "done" /\ h.pc = "copy"
    /\ LET msg == h.messages[Len(h.message_ids) + 1]
           message_ids == Append(h.message_ids, forwarded_id)
       IN \E ok \in BOOLEAN :
          IF ok
          THEN /\ archive' = Archived(msg)
               /\ IF Len(message_ids) = Len(h.messages)
                  THEN /\ Register(message_ids)
                       /\ h' = [h EXCEPT !.pc = "reply_link",
                                         !.token = next_token,
                                         !.message_ids = message_ids,
                                         !.text = "link",
                                         !.onfail = "batch_error"]
                       /\ UNCHANGED orphans
                  ELSE /\ h' = [h EXCEPT !.message_ids = message_ids]
                       /\ UNCHANGED <<video_storage, file, next_token, issued,
                                      orphans>>
          ELSE /\ h' = [h EXCEPT !.pc = "reply", !.text = "batch_error",
                                 !.onfail = ""]
               /\ orphans' = orphans \cup Unregistered
               /\ UNCHANGED <<video_storage, file, archive, next_token, issued>>
    /\ UNCHANGED <<delete_timer, batch_sessions, job_queue, deleted, attempts,
                   next_msg, linked, expired, latest, restarts>>

\* lines 186-196: the link reply returns, and the job is scheduled, or raises
done_reply ==
    /\ h.op = "done" /\ h.pc = "reply_link"
    /\ \E ok \in BOOLEAN :
          IF ok
          THEN /\ job_queue' = run_once(delete_timer, h.token, h.message_ids)
               /\ linked' = linked \cup {h.token}
               /\ h' = Idle
          ELSE /\ h' = [h EXCEPT !.pc = "reply", !.text = h.onfail,
                                 !.onfail = ""]
               /\ UNCHANGED <<job_queue, linked>>
    /\ UNCHANGED <<video_storage, delete_timer, batch_sessions, file, archive,
                   deleted, attempts, next_token, next_msg, issued, expired,
                   latest, restarts, orphans>>

\* ------------------------------------------------------------ deletion jobs
\* a second of the job queue's clock passes for every armed job
Tick ==
    /\ \E k \in 1..Len(job_queue) :
          job_queue[k].pc = "armed" /\ job_queue[k].rem > 0
    /\ job_queue' = [k \in 1..Len(job_queue) |->
                        IF job_queue[k].pc = "armed" /\ job_queue[k].rem > 0
                        THEN [job_queue[k] EXCEPT !.rem = @ - 1]
                        ELSE job_queue[k]]
    /\ UNCHANGED <<video_storage, delete_timer, batch_sessions, file, h,
                   archive, deleted, attempts, next_token, next_msg, issued,
                   linked, expired, latest, restarts, orphans>>

\* outcomes of delete_message: only a message still in the channel is deleted
DeleteOutcomes(msg_id) ==
    IF msg_id \in deleted THEN {FALSE} ELSE BOOLEAN

\* Remove that rewrites storage.json and leaves the registry as it is
Remove_file_only(token) ==
    IF token \in DOMAIN video_storage
    THEN /\ file' = save_storage(dict_del(video_storage, token), delete_timer)
         /\ UNCHANGED video_storage
    ELSE UNCHANGED <<video_storage, file>>

\* Remove that drops the whole registry
Remove_all(token) ==
    IF token \in DOMAIN video_storage
    THEN /\ video_storage' = <<>>
         /\ file' = save_storage(video_storage', delete_timer)
    ELSE UNCHANGED <<video_storage, file>>

\* Remove without the save_storage() call
Remove_nosave(token) ==
    IF token \in DOMAIN video_storage
    THEN /\ video_storage' = dict_del(video_storage, token)
         /\ UNCHANGED file
    ELSE UNCHANGED <<video_storage, file>>

\* Remove that saves whether or not the token was there
Remove_always_saves(token) ==
    /\ video_storage' = dict_del(video_storage, token)
    /\ file' = save_storage(video_storage', delete_timer)

\* Remove that does nothing
Remove_skipped(token) == UNCHANGED <<video_storage, file>>

\* lines 210-212: remove the token and save
Remove(token) ==
    IF token \in DOMAIN video_storage
    THEN /\ video_storage' = dict_del(video_storage, token)
         /\ file' = save_storage(video_storage', delete_timer)
    ELSE UNCHANGED <<video_storage, file>>

\* lines 199-206: the timer of job k fires; the job runs up to its first
\* delete_message
delete_from_channel(k) ==
    /\ job_queue[k].pc = "armed" /\ job_queue[k].rem = 0
    /\ job_queue' = [job_queue EXCEPT ![k].pc = "delete", ![k].i = 1]
    /\ UNCHANGED <<video_storage, delete_timer, batch_sessions, file, h,
                   archive, deleted, attempts, next_token, next_msg, issued,
                   linked, expired, latest, restarts, orphans>>

\* lines 204-212: a delete_message of job k returns or raises; after the last
\* one the token is removed and the job ends
delete_from_channel_resume(k) ==
    /\ job_queue[k].pc = "delete"
    /\ LET job == job_queue[k]
           msg_id == job.message_ids[job.i]
       IN /\ \E ok \in DeleteOutcomes(msg_id) :
                deleted' = IF ok THEN deleted \cup {msg_id} ELSE deleted
          /\ attempts' = dict_set(attempts, msg_id,
                                  dict_count(attempts, msg_id) + 1)
          /\ IF job.i < Len(job.message_ids)
             THEN /\ job_queue' = [job_queue EXCEPT ![k].i = @ + 1]
                  /\ UNCHANGED <<video_storage, file, expired>>
             ELSE /\ Remove(job.name)
                  /\ job_queue' = RemoveAt(job_queue, k)
                  /\ expired' = expired \cup {job.name}
    /\ UNCHANGED <<delete_timer, batch_sessions, h, archive, next_token,
                   next_msg, issued, linked, latest, restarts, orphans>>

\* ------------------------------------------------------------------ restart
\* load_storage that reads the tokens and leaves the delay at its default
load_storage_tokens_only ==
    /\ video_storage' = IF file.exists THEN file.storage ELSE <<>>
    /\ delete_timer' = DEFAULT_DELETE_SECONDS

\* lines 32-37: what load_storage leaves in the fresh globals
load_storage ==
    IF ~file.exists
    THEN /\ video_storage' = <<>>
         /\ delete_timer' = DEFAULT_DELETE_SECONDS
    ELSE /\ video_storage' = file.storage
         /\ delete_timer' = file.timer

\* Restart with the pending jobs carried over into the new process
Restart_keeps_jobs ==
    /\ restarts < MaxRestarts
    /\ restarts' = restarts + 1
    /\ load_storage
    /\ batch_sessions' = <<>>
    /\ h' = Idle
    /\ issued' = {}
    /\ orphans' = orphans \cup Unregistered
    /\ UNCHANGED <<file, archive, deleted, attempts, next_token, next_msg,
                   linked, expired, latest, job_queue>>

\* lines 26-29, 219-239: the process is stopped and main() runs again
Restart ==
    /\ restarts < MaxRestarts
    /\ restarts' = restarts + 1
    /\ load_storage
    /\ batch_sessions' = <<>>
    /\ job_queue' = <<>>
    /\ h' = Idle
    /\ issued' = {}
    /\ orphans' = orphans \cup Unregistered
    /\ UNCHANGED <<file, archive, deleted, attempts, next_token, next_msg,
                   linked, expired, latest>>

\* ------------------------------------------------------------ specification
Handlers ==
    \/ \E user \in Users, args \in StartArgs : start(user, args)
    \/ start_copy
    \/ reply
    \/ \E user \in Users : help_command(user)
    \/ \E user \in Users, args \in SettimerArgs : settimer(user, args)
    \/ \E user \in Users : handle_media(user)
    \/ handle_media_copy
    \/ handle_media_reply
    \/ \E user \in Users : batch_command(user)
    \/ \E user \in Users : done_command(user)
    \/ done_copy
    \/ done_reply

Jobs ==
    \/ Tick
    \/ \E k \in 1..Len(job_queue) : delete_from_channel(k)
    \/ \E k \in 1..Len(job_queue) : delete_from_channel_resume(k)

Next == Handlers \/ Jobs \/ Restart

Spec == Init /\ [][Next]_vars

\* One process lifetime.  The job queue's scheduler fires every due timer and
\* resumes every job whose platform call has returned, and its clock advances.
NextLive == Handlers \/ Jobs

LiveSpec == Init /\ [][NextLive]_vars /\ WF_vars(Jobs)

\* ------------------------------------------------- the removal step alone
\* number of removal steps applied in a row
MaxRemovals == 2

\* lists of archive ids as the handlers build them: not empty, ascending
IdLists ==
    {s \in UNION {[1..n -> 1..MaxUploads] : n \in 1..MaxUploads} :
        \A i, j \in 1..Len(s) : i < j => s[i] < s[j]}

\* registries the handlers can leave behind: no archive id listed twice
Registries ==
    {r \in UNION {[T -> IdLists] : T \in SUBSET (1..MaxUploads)} :
        \A t, u \in DOMAIN r :
            t # u => {r[t][i] : i \in 1..Len(r[t])}
                       \cap {r[u][i] : i \in 1..Len(r[u])} = {}}

\* a registry and a delay with storage.json mirroring them, or the state
\* before the first write
InitRemove ==
    /\ video_storage \in Registries
    /\ delete_timer \in {0, DEFAULT_DELETE_SECONDS}
    /\ \/ file = save_storage(video_storage, delete_timer)
       \/ /\ video_storage = <<>> /\ delete_timer = DEFAULT_DELETE_SECONDS
          /\ file = NoFile
    /\ batch_sessions = <<>>
    /\ job_queue = <<>>
    /\ h = Idle
    /\ archive = <<>>
    /\ deleted = {}
    /\ attempts = <<>>
    /\ next_token = MaxUploads + 1
    /\ next_msg = MaxUploads + 1
    /\ issued = DOMAIN video_storage
    /\ linked = {}
    /\ expired = {}
    /\ latest = delete_timer
    /\ restarts = 0
    /\ orphans = {}

\* lines 210-212 run for the token; h.token is the token of the last step
\* and h.sent the tokens of the steps so far
RemovalStep(token) ==
    /\ Len(h.sent) < MaxRemovals
    /\ Remove(token)
    /\ h' = [h EXCEPT !.op = "remove", !.token = token,
                      !.sent = Append(h.sent, token)]
    /\ UNCHANGED <<delete_timer, batch_sessions, job_queue, archive, deleted,
                   attempts, next_token, next_msg, issued, linked, expired,
                   latest, restarts, orphans>>

NextRemove == \E token \in 1..(MaxUploads + 1) : RemovalStep(token)

RemoveSpec == InitRemove /\ [][NextRemove]_vars

\* ------------------------------------------------------------------- claims
\* the handler resumes from the copy_message of its last item, which succeeded
AllCopied ==
    /\ h.op \in {"media", "done"} /\ h.pc = "copy"
    /\ Len(h.message_ids) + 1 = Len(h.messages)
    /\ Len(archive') = Len(archive) + 1

\* the source messages of a list of archive message ids
Sources(ids) == [i \in 1..Len(ids) |-> archive'[ids[i]]]

\* C1: when the last archive copy of a single upload or of a /done succeeds,
\* exactly one new token enters the registry, and looking it up yields one
\* archive id per uploaded item, in upload order; the list a token maps to
\* never changes while the token is in the registry.
C1_PutThenGet ==
    [][/\ AllCopied =>
            \E t \in DOMAIN video_storage' \ DOMAIN video_storage :
                /\ DOMAIN video_storage' = DOMAIN video_storage \cup {t}
                /\ Sources(dict_get(video_storage', t)) = h.messages
                /\ \A i, j \in 1..Len(h.messages) :
                      i < j => h.messages[i].message_id
                                  < h.messages[j].message_id
       /\ \A t \in DOMAIN video_storage \cap DOMAIN video_storage' :
             video_storage'[t] = video_storage[t]
      ]_vars

\* a token of a batch of two is in the registry
C1_Witness ==
    \E t \in DOMAIN video_storage :
        /\ Len(video_storage[t]) = 2
        /\ archive[video_storage[t][1]].message_id
              < archive[video_storage[t][2]].message_id

\* C2: when the last delete_message of a deletion job returns, whatever the
\* outcomes of its delete calls, the job's token is in neither the registry
\* nor storage.json and each of its ids has had exactly one delete attempt.
C2_SweepRemoves ==
    [][\A k \in 1..Len(job_queue) :
          (/\ job_queue[k].pc = "delete"
           /\ job_queue[k].i = Len(job_queue[k].message_ids)
           /\ delete_from_channel_resume(k))
          => /\ job_queue[k].name \notin DOMAIN video_storage'
             /\ job_queue[k].name \notin DOMAIN file'.storage
             /\ \A i \in 1..Len(job_queue[k].message_ids) :
                   dict_count(attempts', job_queue[k].message_ids[i]) = 1
      ]_vars

\* a job has removed its token although none of its delete calls succeeded
C2_Witness ==
    /\ expired # {}
    /\ deleted = {}
    /\ attempts # <<>>
    /\ \A t \in expired :
          t \notin DOMAIN video_storage /\ t \notin DOMAIN file.storage

\* C3: within one process lifetime, with timers firing fairly, a token whose
\* link was returned to the administrator is in the registry until its
\* deletion job removes it, and from some point on it is absent for ever.
C3_LinkedTokenExpires ==
    /\ [](\A t \in linked \ expired :
             /\ t \in DOMAIN video_storage
             /\ \E k \in 1..Len(job_queue) :
                   /\ job_queue[k].name = t
                   /\ job_queue[k].message_ids = video_storage[t])
    /\ \A t \in 1..MaxUploads :
          [](t \in linked => <>[](t \notin DOMAIN video_storage))

\* a token whose link was returned has been removed by its job
C3_Witness ==
    \E t \in linked : t \in expired /\ dict_get(video_storage, t) = None

\* the jobs of the queue that carry the token's name
JobsOf(t) == {k \in 1..Len(job_queue) : job_queue[k].name = t}

\* C4: whenever no upload or /done handler is in execution, every token that
\* was registered in this process lifetime and is still in the registry has
\* exactly one pending deletion job.
C4_OneTimerPerToken ==
    h.op \notin {"media", "done"} =>
        \A t \in issued \cap DOMAIN video_storage :
            Cardinality(JobsOf(t)) = 1

\* the steps of a handler run for a user who is not the administrator
NonAdminArrives ==
    /\ h.pc = "idle" /\ h'.pc # "idle"
    /\ h'.user # ADMIN_ID
    /\ h'.op \in {"settimer", "batch", "done", "media"}

NonAdminContinues ==
    /\ h.pc # "idle" /\ h' # h /\ restarts' = restarts
    /\ h.user # ADMIN_ID
    /\ h.op \in {"settimer", "batch", "done", "media"}

\* C5: a /settimer, /batch, /done or media upload of a user who is not the
\* administrator is answered with the denial and its handler changes neither
\* the delay setting, the registry, the batch sessions, the job queue nor
\* storage.json.
C5_NonAdminDenied ==
    [][/\ NonAdminArrives =>
            /\ h'.pc = "reply" /\ h'.text = "denied" /\ h'.onfail = ""
            /\ UNCHANGED <<delete_timer, video_storage, batch_sessions,
                           job_queue, file>>
       /\ NonAdminContinues =>
            /\ h' = Idle
            /\ UNCHANGED <<delete_timer, video_storage, batch_sessions,
                           job_queue, file>>
      ]_vars

\* a non-admin /settimer is being denied while there is a token, a timer, a
\* batch session and a stored file to leave alone
C5_Witness ==
    /\ h.op = "settimer" /\ h.user # ADMIN_ID /\ h.text = "denied"
    /\ video_storage # <<>>
    /\ job_queue # <<>>
    /\ ADMIN_ID \in DOMAIN batch_sessions
    /\ file.exists

\* a /start <token> arrives for a token that was never issued or that a
\* deletion job has removed
StartOfDeadToken ==
    /\ h.pc = "idle" /\ h'.op = "start" /\ h'.token # 0
    /\ h'.token \in expired \/ h'.token >= next_token

\* C6: /start with a token that was never issued or has been removed starts
\* no copy from the archive, answers 'invalid or expired' and then ends, and
\* changes nothing but the handler slot.
C6_DeadTokenInvalid ==
    [][/\ StartOfDeadToken =>
            /\ dict_get(video_storage, h'.token) = None
            /\ h'.pc = "reply" /\ h'.text = "invalid" /\ h'.sent = <<>>
            /\ UNCHANGED state
       /\ (h.op = "start" /\ h.text = "invalid" /\ h' # h
             /\ restarts' = restarts) =>
            /\ h' = Idle
            /\ UNCHANGED state
      ]_vars

\* 'invalid or expired' is being answered for a token that a job removed
C6_Witness ==
    /\ h.op = "start" /\ h.text = "invalid"
    /\ h.token \in expired

\* C7: an administrator's /batch while the session is open answers 'already
\* started' and leaves the accumulated list as it was; with no session it
\* opens one with an empty list.
C7_BatchBegin ==
    [][(h.pc = "idle" /\ h'.op = "batch" /\ h'.user = ADMIN_ID) =>
          IF ADMIN_ID \in DOMAIN batch_sessions
          THEN /\ h'.text = "already_started"
               /\ batch_sessions' = batch_sessions
          ELSE /\ h'.text = "batch_started"
               /\ DOMAIN batch_sessions' = DOMAIN batch_sessions \cup {ADMIN_ID}
               /\ batch_sessions'[ADMIN_ID] = <<>>
      ]_vars

\* a second /batch is being refused while the batch holds an item
C7_Witness ==
    /\ h.op = "batch" /\ h.text = "already_started"
    /\ ADMIN_ID \in DOMAIN batch_sessions
    /\ batch_sessions[ADMIN_ID] # <<>>

\* the administrator's session is open and holds no item
EmptyBatch ==
    /\ ADMIN_ID \in DOMAIN batch_sessions
    /\ batch_sessions[ADMIN_ID] = <<>>

\* C8: an administrator's /done on an open, empty batch answers 'no media
\* sent' and ends: no archive copy, no token, no timer, no write of the
\* store, and the session stays open and empty.
C8_DoneOnEmptyBatch ==
    [][/\ (h.pc = "idle" /\ h'.op = "done" /\ h'.user = ADMIN_ID
             /\ EmptyBatch) =>
            /\ h'.pc = "reply" /\ h'.text = "no_batch" /\ h'.onfail = ""
            /\ EmptyBatch'
            /\ UNCHANGED state
       /\ (h.op = "done" /\ h.text = "no_batch" /\ h' # h
             /\ restarts' = restarts) =>
            /\ h' = Idle
            /\ UNCHANGED state
      ]_vars

\* /done is being refused on an open, empty batch
C8_Witness ==
    /\ h.op = "done" /\ h.user = ADMIN_ID /\ h.text = "no_batch"
    /\ EmptyBatch

\* C9: in every state between two atomic steps, once storage.json has been
\* written its token map is the registry and its delay is the delay setting;
\* and it has been written as soon as either differs from its initial value.
C9_StoreMirrorsMemory ==
    IF file.exists
    THEN /\ file.storage = video_storage
         /\ file.timer = delete_timer
    ELSE /\ video_storage = <<>>
         /\ delete_timer = DEFAULT_DELETE_SECONDS

\* a deletion job is suspended in delete_message while an upload is suspended
\* in its link reply, with a delay setting that was changed
C9_Witness ==
    /\ file.exists
    /\ h.pc = "reply_link"
    /\ \E k \in 1..Len(job_queue) : job_queue[k].pc = "delete"
    /\ delete_timer # DEFAULT_DELETE_SECONDS

\* C10: in every state, under every interleaving of deletion jobs with the
\* handlers, each token drawn so far whose job has run its removal step is
\* missing from the registry and from storage.json, every other token drawn
\* is in both with the same ids, and both hold the delay of the last
\* accepted /settimer.
C10_NoLostUpdate ==
    /\ \A t \in 1..(next_token - 1) :
          IF t \in expired
          THEN t \notin DOMAIN video_storage /\ t \notin DOMAIN file.storage
          ELSE /\ t \in DOMAIN video_storage /\ t \in DOMAIN file.storage
               /\ file.storage[t] = video_storage[t]
    /\ delete_timer = latest
    /\ file.exists => file.timer = latest

\* token 1 has been removed by its job, token 2 was registered by a handler
\* that is still suspended in its link reply, after a /settimer
C10_Witness ==
    /\ 1 \in expired
    /\ h.pc = "reply_link" /\ h.token = 2
    /\ 2 \in DOMAIN video_storage /\ 2 \in DOMAIN file.storage
    /\ latest # DEFAULT_DELETE_SECONDS

\* job j, one step later: the same job, its remaining time down by at most
\* one second, fired only once no time remains
SameTimer(j, j2) ==
    /\ j2.name = j.name /\ j2.message_ids = j.message_ids
    /\ j2.when = j.when
    /\ j2.rem \in {j.rem, j.rem - 1} /\ j2.rem >= 0
    /\ j.pc = "armed" /\ j2.pc # "armed" => j.rem = 0
    /\ j.pc # "armed" => j2.pc # "armed"

\* C11: within a process lifetime a timer is armed with the delay setting
\* of that moment; afterwards its expiry only comes nearer with the clock: a
\* /settimer leaves the job queue as it is, a job fires only when its own
\* delay has run out, and a job leaves the queue only by finishing its sweep.
C11_ExpiryFixedWhenArmed ==
    [][restarts' = restarts =>
         /\ delete_timer' # delete_timer => job_queue' = job_queue
         /\ \/ /\ Len(job_queue') = Len(job_queue)
               /\ \A k \in 1..Len(job_queue) :
                     SameTimer(job_queue[k], job_queue'[k])
            \/ /\ Len(job_queue') = Len(job_queue) + 1
               /\ SubSeq(job_queue', 1, Len(job_queue)) = job_queue
               /\ LET new == job_queue'[Len(job_queue')] IN
                  /\ new.when = delete_timer /\ new.rem = delete_timer
                  /\ new.pc = "armed"
            \/ \E k \in 1..Len(job_queue) :
                  /\ job_queue' = RemoveAt(job_queue, k)
                  /\ job_queue[k].pc = "delete"
                  /\ job_queue[k].i = Len(job_queue[k].message_ids)
      ]_vars

\* a timer armed under a delay of 1 is still counting after /settimer 0, and
\* a token created after the change has its timer armed with 0
C11_Witness ==
    /\ Len(job_queue) = 2
    /\ job_queue[1].pc = "armed" /\ job_queue[1].when = 1
    /\ job_queue[1].rem = 1
    /\ job_queue[2].when = 0
    /\ delete_timer = 0

\* /start <token> arrives and finds the token in the registry
StartOfLiveToken ==
    /\ h.pc = "idle" /\ h'.op = "start" /\ h'.token \in DOMAIN video_storage

\* a step of the /start handler in execution
StartContinues ==
    /\ h.op = "start" /\ h' # h /\ restarts' = restarts

\* C12: a retrieval copies the ids its token had at lookup, in that order,
\* one per step: what it has delivered is always a prefix of them; a copy
\* that fails ends the copying with the error reply; 'delivered' is answered
\* only after the whole list; and no step of it changes the registry, the
\* store, the timers or the batch sessions.
C12_RetrievalInOrder ==
    /\ [](h.op = "start" =>
            /\ Len(h.sent) <= Len(h.message_ids)
            /\ h.sent = SubSeq(h.message_ids, 1, Len(h.sent))
            /\ h.pc = "copy" => Len(h.sent) < Len(h.message_ids)
            /\ h.text = "delivered" => h.sent = h.message_ids)
    /\ [][/\ StartOfLiveToken =>
               /\ h'.pc = "copy" /\ h'.sent = <<>>
               /\ h'.message_ids = video_storage[h'.token]
               /\ UNCHANGED state
          /\ StartContinues =>
               /\ UNCHANGED state
               /\ h' # Idle => h'.message_ids = h.message_ids
               /\ h.pc = "copy" =>
                     \/ /\ h'.sent = Append(h.sent,
                                            h.message_ids[Len(h.sent) + 1])
                        /\ h'.pc = IF h'.sent = h.message_ids
                                   THEN "reply" ELSE "copy"
                     \/ /\ h'.sent = h.sent
                        /\ h'.pc = "reply" /\ h'.text = "deliver_error"
                        /\ h'.onfail = ""
               /\ h.pc = "reply" =>
                     \/ h' = Idle
                     \/ /\ h.text = "delivered" /\ h'.text = "deliver_error"
                        /\ h'.pc = "reply" /\ h'.sent = h.sent
                        /\ h'.onfail = ""
         ]_vars

\* the second copy of a retrieval of two failed after the first was delivered
C12_Witness ==
    /\ h.op = "start" /\ h.text = "deliver_error"
    /\ Len(h.message_ids) = 2
    /\ h.sent = <<h.message_ids[1]>>

\* the ids of a list
Ids(seq) == {seq[i] : i \in 1..Len(seq)}

\* a copy_message into the archive raised: the handler resumes from its copy
\* and the archive has not grown
ArchiveCopyFails ==
    /\ h.op \in {"media", "done"} /\ h.pc = "copy"
    /\ h' # h /\ restarts' = restarts
    /\ archive' = archive

\* the handler is in the error reply of an upload or a /done
UploadFailed ==
    /\ h.op \in {"media", "done"} /\ h.pc = "reply"
    /\ h.text \in {"store_error", "batch_error"}

C14_PersistsAcrossRestart ==
    [][/\ restarts' # restarts =>
            /\ video_storage' = video_storage
            /\ delete_timer' = delete_timer
            /\ delete_timer' = latest
            /\ file' = file
       /\ delete_timer' # delete_timer =>
            /\ h.pc = "idle"
            /\ h'.op = "settimer" /\ h'.user = ADMIN_ID
            /\ h'.text = "timer_updated"
            /\ delete_timer' \in Nat
            /\ delete_timer' = latest'
            /\ file'.exists /\ file'.timer = delete_timer'
      ]_vars

\* after a restart the memory holds a token and a delay other than the
\* default, both written before the restart
C14_Witness ==
    /\ restarts = 1
    /\ issued = {} /\ video_storage # <<>>
    /\ delete_timer # DEFAULT_DELETE_SECONDS
    /\ h = Idle /\ job_queue = <<>>

\* the tokens the process found in storage.json when it started
Loaded == DOMAIN video_storage \ issued

\* C15: a restart leaves no timer armed and no batch session, and the
\* registry holds what storage.json held; from then on, for as long as the
\* process lives, every token it loaded stays in the registry with its ids
\* and no job carries its name.
C15_RestartOrphansTokens ==
    /\ [](\A t \in Loaded : JobsOf(t) = {})
    /\ [][/\ restarts' # restarts =>
               /\ job_queue' = <<>>
               /\ batch_sessions' = <<>>
               /\ h' = Idle
               /\ video_storage' = file.storage
               /\ Loaded' = DOMAIN file.storage
          /\ restarts' = restarts =>
               \A t \in Loaded :
                   /\ t \in Loaded'
                   /\ dict_get(video_storage', t) = video_storage[t]
                   /\ dict_get(video_storage', t) # None
         ]_vars

\* a token whose timer was armed before the restart is in the registry of
\* the new process, with no job, while a token created after the restart
\* has been removed by its job
C15_Witness ==
    /\ restarts = 1
    /\ 1 \in Loaded /\ 1 \in linked
    /\ JobsOf(1) = {}
    /\ 2 \in expired

\* C16: the removal step for a token that is not in the registry, or that an
\* earlier removal step took out, changes neither the registry nor
\* storage.json; a removal step leaves its token in neither, and every other
\* token in both with its ids.
C16_RemoveIdempotent ==
    [][LET t == h'.token
           before == {h.sent[i] : i \in 1..Len(h.sent)}
       IN /\ t \notin DOMAIN video_storage =>
                video_storage' = video_storage /\ file' = file
          /\ t \in before =>
                video_storage' = video_storage /\ file' = file
          /\ t \notin DOMAIN video_storage'
          /\ t \notin DOMAIN file'.storage
          /\ DOMAIN video_storage' = DOMAIN video_storage \ {t}
          /\ \A u \in DOMAIN video_storage \ {t} :
                /\ video_storage'[u] = video_storage[u]
                /\ dict_get(file'.storage, u) = video_storage[u]
          /\ file'.exists => file'.timer = delete_timer
      ]_vars

\* token 1 has been removed twice and token 2 is still in the registry and
\* in storage.json
C16_Witness ==
    /\ h.sent = <<1, 1>>
    /\ DOMAIN video_storage = {2}
    /\ DOMAIN file.storage = {2}

\* a media message of the administrator arrives
AdminUploads ==
    /\ h.pc = "idle" /\ h'.op = "media" /\ h'.user = ADMIN_ID

\* the handler is answering that the item went into the batch
AddedToBatch ==
    /\ h.op = "media" /\ h.user = ADMIN_ID /\ h.text = "added"

\* C17: a media message of the administrator goes by the session: with a
\* batch open it is appended to the end of the list and the handler only
\* replies (no archive copy, no token, no timer, no write of the store);
\* with none open the sessions stay as they are and the handler copies that
\* one item, and the token it registers has exactly one id.
C17_UploadRoutedBySession ==
    [][/\ AdminUploads =>
            /\ Len(h'.messages) = 1
            /\ h'.messages[1] = Message(ADMIN_ID, next_msg)
            /\ UNCHANGED <<video_storage, file, job_queue, archive,
                           next_token, delete_timer>>
            /\ IF ADMIN_ID \in DOMAIN batch_sessions
               THEN /\ AddedToBatch' /\ h'.pc = "reply" /\ h'.onfail = ""
                    /\ DOMAIN batch_sessions' = DOMAIN batch_sessions
                    /\ batch_sessions'[ADMIN_ID] =
                          Append(batch_sessions[ADMIN_ID], h'.messages[1])
               ELSE /\ h'.pc = "copy"
                    /\ batch_sessions' = batch_sessions
       /\ (AddedToBatch /\ h' # h /\ restarts' = restarts) =>
            /\ h' = Idle
            /\ UNCHANGED state
       /\ (h.op = "media" /\ h' # h /\ restarts' = restarts) =>
            /\ batch_sessions' = batch_sessions
            /\ \A t \in DOMAIN video_storage' \ DOMAIN video_storage :
                  /\ Len(video_storage'[t]) = 1
                  /\ archive'[video_storage'[t][1]] = h.messages[1]
      ]_vars

\* the second item of an open batch is being acknowledged; nothing is
\* archived or registered
C17_Witness ==
    /\ AddedToBatch
    /\ Len(batch_sessions[ADMIN_ID]) = 2
    /\ batch_sessions[ADMIN_ID][2] = h.messages[1]
    /\ archive = <<>> /\ video_storage = <<>> /\ ~file.exists

\* the administrator has no batch session
NoSession == ADMIN_ID \notin DOMAIN batch_sessions

\* an administrator's /done arrives on a batch that holds items
DoneOnBatch ==
    /\ h.pc = "idle" /\ h'.op = "done" /\ h'.user = ADMIN_ID
    /\ ADMIN_ID \in DOMAIN batch_sessions
    /\ batch_sessions[ADMIN_ID] # <<>>

\* C18: a /done on a batch that holds items takes the items and closes the
\* session before its first copy; the administrator has no session during
\* the whole archival and after it, whether it succeeded or failed, so a
\* /done that follows finds no batch and copies nothing, and an upload that
\* follows is copied on its own.
C18_DoneEndsSessionFirst ==
    /\ [](h.op = "done" /\ h.user = ADMIN_ID /\ h.text # "no_batch"
             => NoSession)
    /\ [][/\ DoneOnBatch =>
               /\ NoSession'
               /\ h'.pc = "copy" /\ h'.message_ids = <<>>
               /\ h'.messages = batch_sessions[ADMIN_ID]
               /\ archive' = archive
          /\ (h.op = "done" /\ h.user = ADMIN_ID /\ h' # h
                /\ restarts' = restarts) =>
               batch_sessions' = batch_sessions
          /\ (h.pc = "idle" /\ NoSession /\ h'.user = ADMIN_ID) =>
               /\ h'.op = "done" =>
                     h'.pc = "reply" /\ h'.text = "no_batch" /\ NoSession'
               /\ h'.op = "media" => h'.pc = "copy" /\ NoSession'
         ]_vars

\* a /done has failed in a copy and the administrator has no session left
C18_Witness ==
    /\ h.op = "done" /\ h.text = "batch_error"
    /\ NoSession
    /\ video_storage = <<>>

\* the positions of the token's list whose message is deleted from the archive
DeletedAt(t) ==
    {i \in 1..Len(video_storage[t]) : video_storage[t][i] \in deleted}

\* C19 as claimed: no id listed under a token of the registry has been
\* deleted from the archive channel.
C19_LiveTokenUndeleted ==
    \A t \in DOMAIN video_storage : DeletedAt(t) = {}

\* C19 as amended: an id listed under a token of the registry has been
\* deleted only if the token's own job has fired and is in its sweep (the
\* deleted ids are at or before the one it has reached; the platform carries
\* out a delete at some moment of the call), or if the token was loaded at a
\* restart that stopped its job in the sweep; a token of this process
\* lifetime whose job has not fired lists no deleted id.
C19_DeletedOnlyInSweep ==
    \A t \in DOMAIN video_storage :
        IF \E k \in JobsOf(t) : job_queue[k].pc = "delete"
        THEN \A k \in JobsOf(t) : \A i \in DeletedAt(t) : i <= job_queue[k].i
        ELSE IF t \in issued
             THEN DeletedAt(t) = {}
             ELSE /\ DeletedAt(t) # {} => t \in linked
                  /\ \A i \in DeletedAt(t) :
                        dict_count(attempts, video_storage[t][i]) = 1

\* a retrieval has failed on the first id of a token whose job, suspended
\* in its second delete_message, has deleted that id
C19_Witness ==
    /\ h.op = "start" /\ h.text = "deliver_error" /\ h.sent = <<>>
    /\ h.token \in DOMAIN video_storage
    /\ DeletedAt(h.token) = {1}
    /\ \E k \in JobsOf(h.token) :
          job_queue[k].pc = "delete" /\ job_queue[k].i = 2

====
